---- MODULE Spec2Model ----
(***************************************************************************)
(* Air-Sentinel OS v2.6 (src/main.py): the main polling loop, the button   *)
(* gesture recogniser, the calibration routine, the setup portal, the      *)
(* background tasks and the config store, as one state machine.            *)
(*                                                                         *)
(* Units.  Times are milliseconds.  Voltages are microvolts (0.6 V is      *)
(* 600000).  Concentrations are units of 0.00001 ug/m3 (12.0 is 1200000),  *)
(* so that (v - offset) * 170 is computed without rounding.  The inputs    *)
(* are multiples of 7500 uV, which makes the two float divisions of the    *)
(* code (the mean of 500 samples, the mean of 15 readings) exact.          *)
(***************************************************************************)
EXTENDS Integers, Sequences, FiniteSets, TLC

VARIABLES
    state,           \* the dict `state` of main.py, a record
    control_pins,    \* the six category output lines, a function 0..5 -> {0,1}
    config_file,     \* the file config.json
    log_file,        \* the file cal_history.txt, a sequence of lines
    last_btn_state,  \* loop local
    btn_start,       \* loop local
    click_count,     \* loop local
    last_click,      \* loop local
    pc,              \* where the single thread is: "loop", "calibrating", "portal",
                     \* or "reset" (machine.reset() was called)
    clock,           \* milliseconds since boot at the next call of ticks_ms()
    boots,           \* number of reboots so far
    faults,          \* environment faults still allowed in this run
    env,             \* the run's environment: button script, signal, servers
    out              \* what the latest loop iteration did (observation only)

vars == <<state, control_pins, config_file, log_file, last_btn_state, btn_start,
          click_count, last_click, pc, clock, boots, faults, env, out>>

-----------------------------------------------------------------------------
(* Program constants *)

TICKS_PERIOD == 1073741824
TICKS_HALF == 536870912
SleepMs == 50
NoiseMs == 20
ClickWindowMs == 250
CalHoldMs == 5000
PortalHoldMs == 10000
AutoCycleMs == 10000
NtpIntervalMs == 86400000
WeatherIntervalMs == 900000
TelemetryIntervalMs == 1000
CalMsgMs == 2000
AutoMsgMs == 1000
HistoryLen == 60
SmoothLen == 15
NSamples == 500
SampleDelayMs == 10
Sensitivity == 170
DefaultOffset == 600000
PortalDefaultOffset == 600000
NumPins == 6
NumViews == 5
NumAutoViews == 3
AqiGood == 1200000
AqiModerate == 3540000
AqiUnhealthyS == 5540000
AqiUnhealthy == 15040000
AqiVeryUnhealthy == 25040000

(* Bounds of the model *)

MaxFaults == 1         \* transient faults per run
MaxBoots == 1          \* reboots per run
BootMs == 100          \* ticks_ms() when the main loop is entered
JitterMs == 20         \* what an iteration takes beyond its sleep, in slow runs
NtpTimeoutMs == 1000   \* how long a failing ntptime.settime() blocks
HttpBlockMs == 60000   \* how long a failing urequests.get() blocks

-----------------------------------------------------------------------------
\* the grid of the sensor voltages the model feeds in, microvolts
VoltStep == SmoothLen * NSamples

\* microvolts times ug/m3 per volt, over this, is a concentration of the model
ConcScale == 2 * 5

(* utime.ticks_ms() and utime.ticks_diff() of MicroPython *)

ticks_ms(t) == t % TICKS_PERIOD

ticks_diff(a, b) == ((a - b + TICKS_HALF) % TICKS_PERIOD) - TICKS_HALF

Max(a, b) == IF a >= b THEN a ELSE b

RECURSIVE SumRange(_, _, _)
SumRange(s, lo, hi) ==
    IF lo > hi THEN 0
    ELSE IF lo = hi THEN s[lo]
    ELSE LET mid == (lo + hi) \div 2
         IN  SumRange(s, lo, mid) + SumRange(s, mid + 1, hi)

\* sum(s)
SumSeq(s) == SumRange(s, 1, Len(s))

LastN(s, n) == SubSeq(s, Len(s) - n + 1, Len(s))

\* "{:.4f}".format(v) and round(v, 4): microvolts to units of 0.1 mV
Fmt4(uv) == (uv + 50) \div 100

-----------------------------------------------------------------------------
(* Section 4 of main.py: storage and logic *)

DefaultConfig ==
    [ssid |-> "", pass |-> "", lat |-> "51.7520", lon |-> "-1.2577",
     auto |-> FALSE, offset |-> DefaultOffset]

NoFile == [kind |-> "absent", data |-> DefaultConfig]
CorruptFile == [kind |-> "corrupt", data |-> DefaultConfig]
JsonFile(c) == [kind |-> "json", data |-> c]

\* a classifier whose comparisons are strict
get_aqi_category_strict(c) ==
    IF c < AqiGood THEN 0
    ELSE IF c < AqiModerate THEN 1
    ELSE IF c < AqiUnhealthyS THEN 2
    ELSE IF c < AqiUnhealthy THEN 3
    ELSE IF c < AqiVeryUnhealthy THEN 4
    ELSE 5

\* get_aqi_category(c): the level index
get_aqi_category(c) ==
    IF c <= AqiGood THEN 0
    ELSE IF c <= AqiModerate THEN 1
    ELSE IF c <= AqiUnhealthyS THEN 2
    ELSE IF c <= AqiUnhealthy THEN 3
    ELSE IF c <= AqiVeryUnhealthy THEN 4
    ELSE 5

\* get_aqi_category(c): the category string
CategoryName(level) ==
    CASE level = 0 -> "GOOD"
      [] level = 1 -> "MODERATE"
      [] level = 2 -> "UNHEALTHY-S"
      [] level = 3 -> "UNHEALTHY"
      [] level = 4 -> "V. UNHEALTHY"
      [] OTHER -> "HAZARDOUS"

\* an update that sets the line of the level and leaves the others as they are
update_hardware_sticky(c) ==
    [i \in 0..(NumPins - 1) |-> IF i = get_aqi_category(c) THEN 1 ELSE control_pins[i]]

\* update_hardware(c): the values of the six pins after the call
update_hardware(c) ==
    [i \in 0..(NumPins - 1) |-> IF i = get_aqi_category(c) THEN 1 ELSE 0]

AllPinsOff == [i \in 0..(NumPins - 1) |-> 0]

\* log_calibration(offset): the log after the call; ok = the append succeeded
log_calibration(lf, offset, ok) ==
    IF ok THEN Append(lf, Fmt4(offset)) ELSE lf

\* A keyword argument: None when not given, Some(v) when given
None == <<>>
Some(v) == <<v>>

NoArgs == [ssid |-> None, pass |-> None, lat |-> None, lon |-> None,
           auto |-> None, offset |-> None]

\* float(x) of an offset argument x = [num |-> x is a number or the text of one,
\* val |-> its value]: the float, or an exception (raised) for any other text
FloatOk(x) == x.num

\* float(offset) throws at line 98
Raises(a) == a.offset # None /\ ~FloatOk(a.offset[1])

\* lines 92-98: the dict state["config"] after the assignments
ConfigAfter(c, a) ==
    [ssid |-> IF a.ssid # None THEN a.ssid[1] ELSE c.ssid,
     pass |-> IF a.pass # None THEN a.pass[1] ELSE c.pass,
     lat |-> IF a.lat # None THEN a.lat[1] ELSE c.lat,
     lon |-> IF a.lon # None THEN a.lon[1] ELSE c.lon,
     auto |-> IF a.auto # None THEN a.auto[1] ELSE c.auto,
     offset |-> IF a.offset # None /\ ~Raises(a) THEN a.offset[1].val ELSE c.offset]

\* save_config(...): w = [config, cf, lf]; a = the keyword arguments; log_ok,
\* cfg_ok = whether the two file writes succeed (their failures are swallowed).
\* raised = float(offset) threw, which leaves the function before any write.
save_config(w, a, log_ok, cfg_ok) ==
    [config |-> ConfigAfter(w.config, a),
     cf |-> IF cfg_ok /\ ~Raises(a) THEN JsonFile(ConfigAfter(w.config, a)) ELSE w.cf,
     lf |-> IF a.offset # None /\ ~Raises(a)
            THEN log_calibration(w.lf, a.offset[1].val, log_ok) ELSE w.lf,
     raised |-> Raises(a)]

Num(v) == [num |-> TRUE, val |-> v]

-----------------------------------------------------------------------------
(* Section 2 and the start-up code (lines 25-32, 206-210) *)

NoTemp == [known |-> FALSE, deg |-> 0]

\* the dict `state` as line 25 builds it; t = ticks_ms() at that line
InitialState(t) ==
    [mode |-> 0, auto_cycle |-> FALSE, msg_timer |-> 0, msg_text |-> "",
     dust_val |-> 0, dust_history |-> [i \in 1..HistoryLen |-> 0],
     dust_offset |-> DefaultOffset,
     weather_temp |-> NoTemp, weather_desc |-> "Syncing...",
     last_weather_update |-> -WeatherIntervalMs,
     last_ntp_update |-> -NtpIntervalMs,
     last_mode_change |-> t,
     last_serial |-> 0,
     config |-> DefaultConfig]

\* a load that leaves the sampler's offset at its initial value
load_config_unapplied(st, cf, lf, cfg_ok) ==
    IF cf.kind = "json"
    THEN LET c == cf.data
         IN  [state |-> [st EXCEPT !.config = c, !.auto_cycle = c.auto], cf |-> cf]
    ELSE LET w == save_config([config |-> st.config, cf |-> cf, lf |-> lf],
                              NoArgs, TRUE, cfg_ok)
         IN  [state |-> [st EXCEPT !.config = w.config], cf |-> w.cf]

\* load_config(): [state, cf] after the call; cfg_ok = the write of the default
\* config succeeds
load_config(st, cf, lf, cfg_ok) ==
    IF cf.kind = "json"
    THEN LET c == cf.data
         IN  [state |-> [st EXCEPT !.config = c, !.auto_cycle = c.auto,
                                   !.dust_offset = c.offset],
              cf |-> cf]
    ELSE LET w == save_config([config |-> st.config, cf |-> cf, lf |-> lf],
                              NoArgs, TRUE, cfg_ok)
         IN  [state |-> [st EXCEPT !.config = w.config], cf |-> w.cf]

-----------------------------------------------------------------------------
(* Section 7 of main.py: the main loop, lines 211-267 *)

VIEWS == <<"view_dashboard", "view_weather", "view_graph", "view_wifi_diag",
           "view_wifi_scan">>
AUTO_VIEWS == <<"view_dashboard", "view_weather", "view_graph">>

\* list.index(x), 0-based; x is in the list
IndexOf(list, x) == (CHOOSE i \in 1..Len(list) : list[i] = x) - 1

InList(list, x) == \E i \in 1..Len(list) : list[i] = x

\* rp2.bootsel_button() at time t: the run's button script is the ascending
\* sequence of the times at which the button changes, released at boot
bootsel_button(t) ==
    IF boots = 0 /\ Cardinality({i \in 1..Len(env.edges) : env.edges[i] <= t}) % 2 = 1
    THEN 1 ELSE 0

\* a classification with inclusive hold thresholds
ReleaseAction_inclusive(dur) ==
    IF dur >= PortalHoldMs THEN [call |-> "run_setup_ap", click |-> 0]
    ELSE IF dur >= CalHoldMs THEN [call |-> "calibrate_sensor", click |-> 0]
    ELSE IF dur > NoiseMs THEN [call |-> "none", click |-> 1]
    ELSE [call |-> "none", click |-> 0]

\* a classification in which a hold also counts as a click
ReleaseAction_counting(dur) ==
    IF dur > PortalHoldMs THEN [call |-> "run_setup_ap", click |-> 1]
    ELSE IF dur > CalHoldMs THEN [call |-> "calibrate_sensor", click |-> 1]
    ELSE IF dur > NoiseMs THEN [call |-> "none", click |-> 1]
    ELSE [call |-> "none", click |-> 0]

\* lines 217-220: what a release after dur milliseconds does: the routine it
\* calls, and the number of clicks it registers
ReleaseAction(dur) ==
    IF dur > PortalHoldMs THEN [call |-> "run_setup_ap", click |-> 0]
    ELSE IF dur > CalHoldMs THEN [call |-> "calibrate_sensor", click |-> 0]
    ELSE IF dur > NoiseMs THEN [call |-> "none", click |-> 1]
    ELSE [call |-> "none", click |-> 0]

\* an aggregation whose ShortTap also stores the switched-off flag
Aggregate_persisting(st, cf, lf, cc, lc, now, log_ok, cfg_ok) ==
    IF cc > 0 /\ ticks_diff(now, lc) > ClickWindowMs
    THEN IF cc >= 2
         THEN LET auto == ~st.auto_cycle
                  w == save_config([config |-> st.config, cf |-> cf, lf |-> lf],
                                   [NoArgs EXCEPT !.auto = Some(auto)], log_ok, cfg_ok)
              IN  [state |-> [st EXCEPT !.auto_cycle = auto,
                                        !.config = w.config,
                                        !.msg_text = IF auto THEN "AUTO ON" ELSE "AUTO OFF",
                                        !.msg_timer = now + AutoMsgMs],
                   cf |-> w.cf, lf |-> w.lf, click_count |-> 0, tap |-> "double"]
         ELSE LET w == save_config([config |-> st.config, cf |-> cf, lf |-> lf],
                                   [NoArgs EXCEPT !.auto = Some(FALSE)], log_ok, cfg_ok)
              IN  [state |-> [st EXCEPT !.auto_cycle = FALSE,
                                        !.config = w.config,
                                        !.mode = (st.mode + 1) % Len(VIEWS),
                                        !.last_mode_change = now],
                   cf |-> w.cf, lf |-> w.lf, click_count |-> 0, tap |-> "short"]
    ELSE [state |-> st, cf |-> cf, lf |-> lf, click_count |-> cc, tap |-> "none"]

\* an aggregation whose DoubleTap turns the auto-cycle on, whatever it was
Aggregate_switch_on(st, cf, lf, cc, lc, now, log_ok, cfg_ok) ==
    IF cc > 0 /\ ticks_diff(now, lc) > ClickWindowMs
    THEN IF cc >= 2
         THEN LET w == save_config([config |-> st.config, cf |-> cf, lf |-> lf],
                                   [NoArgs EXCEPT !.auto = Some(TRUE)], log_ok, cfg_ok)
              IN  [state |-> [st EXCEPT !.auto_cycle = TRUE,
                                        !.config = w.config,
                                        !.msg_text = "AUTO ON",
                                        !.msg_timer = now + AutoMsgMs],
                   cf |-> w.cf, lf |-> w.lf, click_count |-> 0, tap |-> "double"]
         ELSE [state |-> [st EXCEPT !.auto_cycle = FALSE,
                                    !.mode = (st.mode + 1) % Len(VIEWS),
                                    !.last_mode_change = now],
               cf |-> cf, lf |-> lf, click_count |-> 0, tap |-> "short"]
    ELSE [state |-> st, cf |-> cf, lf |-> lf, click_count |-> cc, tap |-> "none"]

\* an aggregation that does not wait for the click window to pass
Aggregate_hasty(st, cf, lf, cc, lc, now, log_ok, cfg_ok) ==
    IF cc > 0 /\ ticks_diff(now, lc) >= SleepMs
    THEN IF cc >= 2
         THEN LET auto == ~st.auto_cycle
                  w == save_config([config |-> st.config, cf |-> cf, lf |-> lf],
                                   [NoArgs EXCEPT !.auto = Some(auto)], log_ok, cfg_ok)
              IN  [state |-> [st EXCEPT !.auto_cycle = auto,
                                        !.config = w.config,
                                        !.msg_text = IF auto THEN "AUTO ON" ELSE "AUTO OFF",
                                        !.msg_timer = now + AutoMsgMs],
                   cf |-> w.cf, lf |-> w.lf, click_count |-> 0, tap |-> "double"]
         ELSE [state |-> [st EXCEPT !.auto_cycle = FALSE,
                                    !.mode = (st.mode + 1) % Len(VIEWS),
                                    !.last_mode_change = now],
               cf |-> cf, lf |-> lf, click_count |-> 0, tap |-> "short"]
    ELSE [state |-> st, cf |-> cf, lf |-> lf, click_count |-> cc, tap |-> "none"]

\* an aggregation whose ShortTap leaves the click pending
Aggregate_pending(st, cf, lf, cc, lc, now, log_ok, cfg_ok) ==
    IF cc > 0 /\ ticks_diff(now, lc) > ClickWindowMs
    THEN IF cc >= 2
         THEN LET auto == ~st.auto_cycle
                  w == save_config([config |-> st.config, cf |-> cf, lf |-> lf],
                                   [NoArgs EXCEPT !.auto = Some(auto)], log_ok, cfg_ok)
              IN  [state |-> [st EXCEPT !.auto_cycle = auto,
                                        !.config = w.config,
                                        !.msg_text = IF auto THEN "AUTO ON" ELSE "AUTO OFF",
                                        !.msg_timer = now + AutoMsgMs],
                   cf |-> w.cf, lf |-> w.lf, click_count |-> 0, tap |-> "double"]
         ELSE [state |-> [st EXCEPT !.auto_cycle = FALSE,
                                    !.mode = (st.mode + 1) % Len(VIEWS),
                                    !.last_mode_change = now],
               cf |-> cf, lf |-> lf, click_count |-> cc, tap |-> "short"]
    ELSE [state |-> st, cf |-> cf, lf |-> lf, click_count |-> cc, tap |-> "none"]

\* lines 223-230: click aggregation. g = [state, cf, lf, click_count, tap]
Aggregate(st, cf, lf, cc, lc, now, log_ok, cfg_ok) ==
    IF cc > 0 /\ ticks_diff(now, lc) > ClickWindowMs
    THEN IF cc >= 2
         THEN LET auto == ~st.auto_cycle
                  w == save_config([config |-> st.config, cf |-> cf, lf |-> lf],
                                   [NoArgs EXCEPT !.auto = Some(auto)], log_ok, cfg_ok)
              IN  [state |-> [st EXCEPT !.auto_cycle = auto,
                                        !.config = w.config,
                                        !.msg_text = IF auto THEN "AUTO ON" ELSE "AUTO OFF",
                                        !.msg_timer = now + AutoMsgMs],
                   cf |-> w.cf, lf |-> w.lf, click_count |-> 0, tap |-> "double"]
         ELSE [state |-> [st EXCEPT !.auto_cycle = FALSE,
                                    !.mode = (st.mode + 1) % Len(VIEWS),
                                    !.last_mode_change = now],
               cf |-> cf, lf |-> lf, click_count |-> 0, tap |-> "short"]
    ELSE [state |-> st, cf |-> cf, lf |-> lf, click_count |-> cc, tap |-> "none"]

\* (dust_adc.read_u16()/65535)*3.3 at time t, line 234: the run's signal, which
\* is constant or rises with time
Signal(t) == env.signal + env.ramp * ((t - BootMs) \div SleepMs) * VoltStep

\* a window update that drops the newest entry instead of the oldest
ReadSensor_lifo(st, v) ==
    LET cur == Max(0, ((v - st.dust_offset) * Sensitivity) \div ConcScale)
        hist == Append(SubSeq(st.dust_history, 1, HistoryLen - 1), cur)
    IN  [st EXCEPT !.dust_history = hist,
                   !.dust_val = SumSeq(LastN(hist, SmoothLen)) \div SmoothLen]

\* lines 233-237: one sensor reading of v microvolts
ReadSensor(st, v) ==
    LET cur == Max(0, ((v - st.dust_offset) * Sensitivity) \div ConcScale)
        hist == Append(Tail(st.dust_history), cur)
    IN  [st EXCEPT !.dust_history = hist,
                   !.dust_val = SumSeq(LastN(hist, SmoothLen)) \div SmoothLen]

\* int(x) of a temperature given in tenths of a degree: truncation towards zero
IntTrunc(t10) == IF t10 >= 0 THEN t10 \div 10 ELSE -((-t10) \div 10)

\* the lookup table of line 166
WeatherDesc(code) ==
    CASE code = 0 -> "Clear"
      [] code = 1 -> "Mainly Clear"
      [] code = 2 -> "Partly Cloud"
      [] code = 3 -> "Overcast"
      [] code = 61 -> "Rainy"
      [] OTHER -> "Cloudy"

NtpDue(st, now) == ticks_diff(now, st.last_ntp_update) > NtpIntervalMs
WeatherDue(st, now) == ticks_diff(now, st.last_weather_update) > WeatherIntervalMs

\* lines 157-160: what becomes of the time sync.  ntp_ok = ntptime.settime()
\* returns
NtpResult(st, now, connected, ntp_ok) ==
    IF ~connected \/ ~NtpDue(st, now) THEN "skip"
    ELSE IF ntp_ok THEN "ok" ELSE "fail"

\* lines 157, 161-168: what becomes of the weather refresh.  wx = the response:
\* [kind |-> "neterr"] or [kind |-> "json", cw, has_temp, temp10, has_code, code].
\* "partial": line 165 ran and line 166 threw
WxResult(st, now, connected, wx) ==
    IF ~connected \/ ~WeatherDue(st, now) THEN "skip"
    ELSE IF wx.kind = "neterr" \/ ~wx.cw \/ ~wx.has_temp THEN "fail"
    ELSE IF ~wx.has_code THEN "partial"
    ELSE "ok"

\* assignments that stamp a task whether or not its request succeeded
SyncState_stamping(st, now, ntp, wxr, wx) ==
    [st EXCEPT !.last_ntp_update = IF ntp # "skip" THEN now ELSE @,
               !.weather_temp = IF wxr \in {"ok", "partial"}
                                THEN [known |-> TRUE, deg |-> IntTrunc(wx.temp10)] ELSE @,
               !.weather_desc = IF wxr = "ok" THEN WeatherDesc(wx.code) ELSE @,
               !.last_weather_update = IF wxr # "skip" THEN now ELSE @]

\* the assignments of lines 159, 165-167
SyncState(st, now, ntp, wxr, wx) ==
    [st EXCEPT !.last_ntp_update = IF ntp = "ok" THEN now ELSE @,
               !.weather_temp = IF wxr \in {"ok", "partial"}
                                THEN [known |-> TRUE, deg |-> IntTrunc(wx.temp10)] ELSE @,
               !.weather_desc = IF wxr = "ok" THEN WeatherDesc(wx.code) ELSE @,
               !.last_weather_update = IF wxr = "ok" THEN now ELSE @]

\* sync_data(), lines 155-168: y = [state, ntp, wx, ms]; ms = the time the
\* failed requests blocked
sync_data(st, now, connected, ntp_ok, wx) ==
    [state |-> SyncState(st, now, NtpResult(st, now, connected, ntp_ok),
                         WxResult(st, now, connected, wx), wx),
     ntp |-> NtpResult(st, now, connected, ntp_ok),
     wx |-> WxResult(st, now, connected, wx),
     ms |-> (IF NtpResult(st, now, connected, ntp_ok) = "fail" THEN NtpTimeoutMs ELSE 0)
            + (IF WxResult(st, now, connected, wx) # "skip" /\ wx.kind = "neterr"
               THEN HttpBlockMs ELSE 0)]

TelemetryDue(st, now) == ticks_diff(now, st.last_serial) >= TelemetryIntervalMs

\* a telemetry that is emitted only when the network is connected
Telemetry_online(st, now, connected) ==
    IF TelemetryDue(st, now) /\ connected
    THEN Some([dust |-> (st.dust_val + 500) \div 1000,
               cat |-> CategoryName(get_aqi_category(st.dust_val)),
               cal |-> Fmt4(st.dust_offset),
               temp |-> st.weather_temp, weather |-> st.weather_desc,
               rssi |-> "rssi", auto |-> st.auto_cycle])
    ELSE None

\* lines 241-250: the record printed, if any
Telemetry(st, now, connected) ==
    IF TelemetryDue(st, now)
    THEN Some([dust |-> (st.dust_val + 500) \div 1000,
               cat |-> CategoryName(get_aqi_category(st.dust_val)),
               cal |-> Fmt4(st.dust_offset),
               temp |-> st.weather_temp, weather |-> st.weather_desc,
               rssi |-> IF connected THEN "rssi" ELSE "DISC",
               auto |-> st.auto_cycle])
    ELSE None

AutoDue(st, now) ==
    st.auto_cycle /\ ticks_diff(now, st.last_mode_change) > AutoCycleMs

\* an auto-cycle through all the views
AutoCycle_all(st, now) ==
    IF AutoDue(st, now)
    THEN [st EXCEPT !.mode = (st.mode + 1) % Len(VIEWS), !.last_mode_change = now]
    ELSE st

\* lines 252-256: auto-cycle
AutoCycle(st, now) ==
    IF AutoDue(st, now)
    THEN LET cur_v == VIEWS[st.mode + 1]
             idx == IF InList(AUTO_VIEWS, cur_v)
                    THEN (IndexOf(AUTO_VIEWS, cur_v) + 1) % Len(AUTO_VIEWS)
                    ELSE 0
         IN  [st EXCEPT !.mode = IndexOf(VIEWS, AUTO_VIEWS[idx + 1]),
                        !.last_mode_change = now]
    ELSE st

\* lines 258-266: what the frame shows
Render(st, now, curr_btn, bs) ==
    IF now < st.msg_timer THEN "msg"
    ELSE IF curr_btn = 1 /\ ticks_diff(now, bs) > PortalHoldMs THEN "release_for_portal"
    ELSE IF curr_btn = 1 /\ ticks_diff(now, bs) > CalHoldMs THEN "release_to_calibrate"
    ELSE VIEWS[st.mode + 1]

-----------------------------------------------------------------------------
(* The environment of one iteration *)

NetErr == [kind |-> "neterr", cw |-> FALSE, has_temp |-> FALSE, temp10 |-> 0,
           has_code |-> FALSE, code |-> 0]
WxJson(cw, ht, t10, hc, code) ==
    [kind |-> "json", cw |-> cw, has_temp |-> ht, temp10 |-> t10,
     has_code |-> hc, code |-> code]

GoodWx == {WxJson(TRUE, TRUE, 186, TRUE, 61), WxJson(TRUE, TRUE, -5, TRUE, 45)}
BadWx == {NetErr, WxJson(FALSE, FALSE, 0, FALSE, 0), WxJson(TRUE, FALSE, 0, TRUE, 3),
          WxJson(TRUE, TRUE, 72, FALSE, 0)}

\* The inputs an iteration may see.  saves_cfg, saves_log: the iteration writes
\* the config file, the log.  A fault (a dropped connection, a failed request, a
\* failed write) where the run's environment is otherwise healthy uses up one
\* of the run's faults.  now = ticks_ms() as sync_data() reads it.  The time an
\* iteration takes beyond its sleep (extra) is the run's jitter.
Inputs(st, now, saves_cfg, saves_log) ==
    LET due == NtpDue(st, now) \/ WeatherDue(st, now)
        base == [log_ok |-> TRUE, cfg_ok |-> TRUE, connected |-> env.net,
                 ntp_ok |-> env.ntp_up, wx |-> NetErr, extra |-> 0, fault |-> FALSE]
        wxs == IF env.net /\ WeatherDue(st, now) /\ env.wx_up THEN GoodWx ELSE {NetErr}
        healthy == {[base EXCEPT !.wx = r, !.extra = env.jitter] : r \in wxs}
        f == [base EXCEPT !.fault = TRUE]
        faulty ==
            IF faults = 0 THEN {}
            ELSE (IF env.net /\ due
                  THEN {[f EXCEPT !.connected = FALSE]} ELSE {})
                 \cup (IF env.net /\ env.ntp_up /\ NtpDue(st, now)
                       THEN {[f EXCEPT !.ntp_ok = FALSE, !.wx = r] : r \in wxs} ELSE {})
                 \cup (IF env.net /\ env.wx_up /\ WeatherDue(st, now)
                       THEN {[f EXCEPT !.wx = r] : r \in BadWx} ELSE {})
                 \cup (IF saves_cfg
                       THEN {[f EXCEPT !.cfg_ok = FALSE, !.wx = r] : r \in wxs} ELSE {})
                 \cup (IF saves_log
                       THEN {[f EXCEPT !.log_ok = FALSE, !.wx = r] : r \in wxs} ELSE {})
    IN  healthy \cup faulty

\* The observation of an iteration: what it read, what it did, and the running
\* counts and times of what the iterations since boot did.  r = the outcome of
\* lines 223-267.
Observe(now, curr_btn, edge, dur, rel, r) ==
    [now |-> now, curr_btn |-> curr_btn,
     release |-> edge /\ curr_btn = 0, dur |-> IF edge /\ curr_btn = 0 THEN dur ELSE 0,
     call |-> rel.call, clicked |-> rel.click,
     tap |-> r.tap, ntp |-> r.ntp, wx |-> r.wx, telemetry |-> r.telemetry,
     connected |-> r.connected,
     auto_adv |-> r.auto_adv, shown |-> r.shown,
     cal_d |-> r.cal_d, cal_k |-> r.cal_k,
     n_clicks |-> out.n_clicks + rel.click,
     n_short |-> out.n_short + (IF r.tap = "short" THEN 1 ELSE 0),
     n_double |-> out.n_double + (IF r.tap = "double" THEN 1 ELSE 0),
     ntp_at |-> IF r.ntp = "ok" THEN r.sync_at ELSE out.ntp_at,
     ntp_prev |-> IF r.ntp = "ok" THEN out.ntp_at ELSE out.ntp_prev,
     wx_at |-> IF r.wx = "ok" THEN r.sync_at ELSE out.wx_at,
     wx_prev |-> IF r.wx = "ok" THEN out.wx_at ELSE out.wx_prev,
     tel_at |-> IF r.telemetry # None THEN clock ELSE out.tel_at,
     tel_prev |-> IF r.telemetry # None THEN out.tel_at ELSE out.tel_prev,
     ran |-> TRUE, response |-> "none", request |-> None,
     auto_at_boot |-> out.auto_at_boot]

NoOut ==
    [now |-> 0, curr_btn |-> 0, release |-> FALSE, dur |-> 0, call |-> "none",
     clicked |-> 0, tap |-> "none", ntp |-> "skip", wx |-> "skip",
     telemetry |-> None, connected |-> FALSE, auto_adv |-> FALSE, shown |-> "none",
     cal_d |-> 0, cal_k |-> 0,
     n_clicks |-> 0, n_short |-> 0, n_double |-> 0,
     ntp_at |-> -1, ntp_prev |-> -1, wx_at |-> -1, wx_prev |-> -1,
     tel_at |-> -1, tel_prev |-> -1,
     ran |-> FALSE, response |-> "none", request |-> None, auto_at_boot |-> FALSE]

\* the observation when the main loop is entered with the variables st
BootOut(st) == [NoOut EXCEPT !.auto_at_boot = st.auto_cycle]

NoRest == [tap |-> "none", ntp |-> "skip", wx |-> "skip", telemetry |-> None,
           connected |-> FALSE, sync_at |-> 0, auto_adv |-> FALSE, shown |-> "none",
           cal_d |-> 0, cal_k |-> 0]

NoRelease == [call |-> "none", click |-> 0]

\* Lines 223-267: the part of an iteration after the button edge handling,
\* with the values of the locals and of the program's variables at line 223,
\* and x the iteration's inputs.  ms = the time spent in the iteration before
\* line 223; cal = the sample population of its calibration, if any.  It sets
\* everything but the button locals and pc.  sync_data() reads ticks_ms() anew
\* (line 156): ms after the iteration's `now`.
FinishIteration(now, curr_btn, edge, dur, rel, bs, cc, lc, st, cf, lf, x, ms, cal) ==
    \E g \in {Aggregate(st, cf, lf, cc, lc, now, x.log_ok, x.cfg_ok)} :
    \E y \in {sync_data(ReadSensor(g.state, Signal(clock + ms)), ticks_ms(clock + ms),
                         x.connected, x.ntp_ok, x.wx)} :
    \E tel \in {Telemetry(y.state, now, x.connected)} :
    \E s4 \in {IF tel # None THEN [y.state EXCEPT !.last_serial = now] ELSE y.state} :
    \E s5 \in {AutoCycle(s4, now)} :
        /\ state' = s5
        /\ control_pins' = update_hardware(y.state.dust_val)
        /\ config_file' = g.cf
        /\ log_file' = g.lf
        /\ click_count' = g.click_count
        /\ clock' = clock + ms + y.ms + SleepMs + x.extra
        /\ faults' = IF x.fault THEN faults - 1 ELSE faults
        /\ out' = Observe(now, curr_btn, edge, dur, rel,
                          [tap |-> g.tap, ntp |-> y.ntp, wx |-> y.wx, telemetry |-> tel,
                           connected |-> x.connected, sync_at |-> clock + ms,
                           auto_adv |-> AutoDue(s4, now),
                           shown |-> Render(s5, now, curr_btn, bs),
                           cal_d |-> cal[1], cal_k |-> cal[2]])

\* One iteration of the main loop (lines 212-267).  When the release of a long
\* hold calls calibrate_sensor() or run_setup_ap(), the iteration stops inside
\* that call: the thread is then in the routine, not in the loop.
Tick ==
    /\ pc = "loop"
    /\ clock <= env.horizon
    /\ \E now \in {ticks_ms(clock)}, curr_btn \in {bootsel_button(clock)} :
       \E edge \in {curr_btn # last_btn_state}, dur \in {ticks_diff(now, btn_start)} :
       \E rel \in {IF edge /\ curr_btn = 0 THEN ReleaseAction(dur) ELSE NoRelease} :
       \E bs \in {IF edge /\ curr_btn = 1 THEN now ELSE btn_start},
          cc \in {click_count + rel.click},
          lc \in {IF rel.click > 0 THEN now ELSE last_click} :
           IF rel.call = "run_setup_ap"
           THEN /\ pc' = "portal"
                /\ click_count' = cc
                /\ last_click' = lc
                /\ out' = Observe(now, curr_btn, edge, dur, rel, [NoRest EXCEPT !.shown = "portal"])
                /\ UNCHANGED <<state, control_pins, config_file, log_file, last_btn_state,
                               btn_start, clock, boots, faults, env>>
           ELSE IF rel.call = "calibrate_sensor"
           THEN /\ pc' = "calibrating"
                /\ control_pins' = AllPinsOff
                /\ click_count' = cc
                /\ last_click' = lc
                /\ out' = Observe(now, curr_btn, edge, dur, rel,
                                  [NoRest EXCEPT !.shown = "CALIBRATING..."])
                /\ UNCHANGED <<state, config_file, log_file, last_btn_state,
                               btn_start, clock, boots, faults, env>>
           ELSE \E x \in Inputs(state, now,
                                cc >= 2 /\ ticks_diff(now, lc) > ClickWindowMs, FALSE) :
                    /\ FinishIteration(now, curr_btn, edge, dur, rel, bs, cc, lc,
                                       state, config_file, log_file, x, 0, <<0, 0>>)
                    /\ last_btn_state' = curr_btn
                    /\ btn_start' = bs
                    /\ last_click' = lc
                    /\ UNCHANGED <<pc, boots, env>>

-----------------------------------------------------------------------------
(* Section 3 of main.py: calibrate_sensor(), lines 42-62 *)

\* the time the 500 samples take: 500 sleeps of 10 ms
CalMs == NSamples * SampleDelayMs

\* the sample populations the model feeds in: the first k samples read d
\* microvolts above the run's signal
CalDrift == {0, 2 * VoltStep}
CalSplit == {1, 200}

\* an offset taken from the first sample alone
Mean_first(samples) == samples[1]

\* line 58
Mean(samples) == SumSeq(samples) \div Len(samples)

\* lines 58-62: [state, cf, lf] after the routine; t = ticks_ms() at its end
calibrate_sensor(st, cf, lf, samples, t, log_ok, cfg_ok) ==
    LET w == save_config([config |-> st.config, cf |-> cf, lf |-> lf],
                         [NoArgs EXCEPT !.offset = Some(Num(Mean(samples)))],
                         log_ok, cfg_ok)
    IN  [state |-> [st EXCEPT !.dust_offset = Mean(samples),
                              !.config = w.config,
                              !.msg_text = "CAL & LOGGED!",
                              !.msg_timer = t + CalMsgMs],
         cf |-> w.cf, lf |-> w.lf]

\* The calibration routine runs to its end, returns into the iteration that
\* called it (line 219) and that iteration finishes (lines 221-267) with the
\* `now` it read before the call.
CalibrateSensor ==
    /\ pc = "calibrating"
    /\ \E now \in {ticks_ms(clock)} :
       \E d \in CalDrift, k \in CalSplit,
          x \in Inputs(state, ticks_ms(clock + CalMs), TRUE, TRUE) :
       \E samples \in {[i \in 1..NSamples |-> IF i <= k THEN env.signal + d ELSE env.signal]} :
       \E c \in {calibrate_sensor(state, config_file, log_file, samples,
                                  ticks_ms(clock + CalMs), x.log_ok, x.cfg_ok)} :
           /\ FinishIteration(now, 0, FALSE, 0, [NoRelease EXCEPT !.call = "calibrated"],
                              btn_start, click_count, last_click,
                              c.state, c.cf, c.lf, x, CalMs, <<d, k>>)
           /\ last_btn_state' = 0
           /\ pc' = "loop"
           /\ UNCHANGED <<btn_start, last_click, boots, env>>

-----------------------------------------------------------------------------
(* Section 5 of main.py: run_setup_ap(), lines 113-148 *)

\* the query parameters of a save request: None when the request lacks it
SaveRequests ==
    LET full == [s |-> Some("home"), p |-> Some("secret"), la |-> Some("48.1"),
                 lo |-> Some("11.5"), os |-> None]
    IN  {full,
         [full EXCEPT !.os = Some(Num(DefaultOffset + 2 * VoltStep))],
         [full EXCEPT !.os = Some([num |-> FALSE, val |-> 0])],
         [full EXCEPT !.p = None]}

\* the observation of a portal request: what was sent back
PortalOut(resp) == [out EXCEPT !.response = resp, !.release = FALSE, !.request = None]

\* the observation of a save request q: the request, and what was sent back
SaveOut(q, resp) == [PortalOut(resp) EXCEPT !.request = Some(q)]

\* GET /logs (lines 125-129): the log is sent; nothing changes
PortalLogs ==
    /\ pc = "portal"
    /\ out' = PortalOut(IF log_file = <<>> THEN "No history found." ELSE "log")
    /\ UNCHANGED <<state, control_pins, config_file, log_file, last_btn_state, btn_start,
                   click_count, last_click, pc, clock, boots, faults, env>>

\* any other request (lines 136-145): the form is sent; nothing changes
PortalForm ==
    /\ pc = "portal"
    /\ out' = PortalOut("form")
    /\ UNCHANGED <<state, control_pins, config_file, log_file, last_btn_state, btn_start,
                   click_count, last_click, pc, clock, boots, faults, env>>

\* GET /?s=... (lines 130-134).  A request that lacks s, p, la or lo raises
\* KeyError at line 133 before save_config is called; float() of a bad offset
\* raises inside save_config; both are swallowed at line 146 and the portal goes
\* on.  Otherwise the device resets.
PortalSave ==
    /\ pc = "portal"
    /\ \E q \in SaveRequests, cfg_ok \in {TRUE} \cup {b \in {FALSE} : faults > 0} :
       IF q.s = None \/ q.p = None \/ q.la = None \/ q.lo = None
       THEN /\ cfg_ok
            /\ out' = SaveOut(q, "none")
            /\ UNCHANGED <<state, control_pins, config_file, log_file, last_btn_state,
                           btn_start, click_count, last_click, pc, clock, boots, faults, env>>
       ELSE LET a == [ssid |-> q.s, pass |-> q.p, lat |-> q.la, lon |-> q.lo,
                      auto |-> None,
                      offset |-> IF q.os = None THEN Some(Num(PortalDefaultOffset))
                                 ELSE q.os]
                w == save_config([config |-> state.config, cf |-> config_file,
                                  lf |-> log_file], a, TRUE, cfg_ok)
            IN  /\ state' = [state EXCEPT !.config = w.config]
                /\ config_file' = w.cf
                /\ log_file' = w.lf
                /\ pc' = IF w.raised THEN "portal" ELSE "reset"
                /\ out' = SaveOut(q, IF w.raised THEN "none" ELSE "Saved! Rebooting...")
                /\ faults' = IF cfg_ok THEN faults ELSE faults - 1
                /\ UNCHANGED <<control_pins, last_btn_state, btn_start, click_count,
                               last_click, clock, boots, env>>

\* a portal that returns to the main loop when the button is held
PortalBreak_returns ==
    /\ pc = "portal"
    /\ pc' = "loop"
    /\ out' = PortalOut("none")
    /\ UNCHANGED <<state, control_pins, config_file, log_file, last_btn_state, btn_start,
                   click_count, last_click, clock, boots, faults, env>>

\* line 147: the button is held, the portal loop ends and the device resets
PortalBreak ==
    /\ pc = "portal"
    /\ pc' = "reset"
    /\ out' = PortalOut("none")
    /\ UNCHANGED <<state, control_pins, config_file, log_file, last_btn_state, btn_start,
                   click_count, last_click, clock, boots, faults, env>>

-----------------------------------------------------------------------------
(* Start-up: lines 16-32 and 206-210 *)

\* the program's variables when the main loop is entered, from the two files
BootState(cf, lf, cfg_ok) == load_config(InitialState(0), cf, lf, cfg_ok)

\* machine.reset() (lines 134, 148): the program starts again
Reboot ==
    /\ pc = "reset"
    /\ boots < MaxBoots
    /\ LET b == BootState(config_file, log_file, TRUE)
       IN  /\ state' = b.state
           /\ config_file' = b.cf
           /\ out' = BootOut(b.state)
    /\ control_pins' = AllPinsOff
    /\ last_btn_state' = 0
    /\ btn_start' = 0
    /\ click_count' = 0
    /\ last_click' = 0
    /\ pc' = "loop"
    /\ clock' = BootMs
    /\ boots' = boots + 1
    /\ UNCHANGED <<log_file, faults, env>>

\* the config files a run may start with
StoredConfigs ==
    {NoFile, CorruptFile,
     JsonFile([DefaultConfig EXCEPT !.auto = TRUE, !.offset = DefaultOffset - VoltStep])}

\* the state in which the main loop is entered in environment e with file cf,
\* with f transient faults to come
InitWith(e, cf, f) ==
    /\ env = e
    /\ LET b == BootState(cf, <<>>, TRUE)
       IN  /\ state = b.state
           /\ config_file = b.cf
           /\ out = BootOut(b.state)
    /\ log_file = <<>>
    /\ control_pins = AllPinsOff
    /\ last_btn_state = 0
    /\ btn_start = 0
    /\ click_count = 0
    /\ last_click = 0
    /\ pc = "loop"
    /\ clock = BootMs
    /\ boots = 0
    /\ faults = f

-----------------------------------------------------------------------------
(* Environments *)

Env(edges, horizon, jitter, net, ntp_up, wx_up, signal) ==
    [edges |-> edges, horizon |-> horizon, jitter |-> jitter, net |-> net,
     ntp_up |-> ntp_up, wx_up |-> wx_up, signal |-> signal, ramp |-> 0]

\* environment e with a sensor signal that rises by r grid steps per 50 ms
Rising(e, r) == [e EXCEPT !.ramp = r]

\* a press at time p held for d milliseconds
Press(p, d) == <<p, p + d>>

Signals == {DefaultOffset, DefaultOffset + 240 * VoltStep}

\* The whole program: button scripts with clicks, double clicks and holds
\* around the thresholds, and a calibration followed by a click and a double
\* click, without network; and runs without button activity with the network
\* up.
Scripts ==
    {<<>>}
    \cup {Press(200, d) : d \in {10, 100, 5000, 5050, 10000, 10050}}
    \cup {Press(200, 100) \o Press(300 + g, 100) : g \in {100, 150, 250}}
    \cup {Press(200, 100) \o Press(400, 100) \o Press(1000, 5050)}
    \cup {Press(200, 5050) \o Press(10500, 100) \o Press(11500, 100) \o Press(11700, 100)}

Environments ==
    {Env(sc, (IF sc = <<>> THEN 0 ELSE sc[Len(sc)]) + 3000, 0, FALSE, FALSE, FALSE, v) :
        sc \in Scripts, v \in Signals}
    \cup {Env(<<>>, 3000, 0, TRUE, TRUE, TRUE, DefaultOffset)}

Init == \E e \in Environments, cf \in StoredConfigs : InitWith(e, cf, MaxFaults)

Next ==
    \/ Tick
    \/ CalibrateSensor
    \/ PortalLogs
    \/ PortalForm
    \/ PortalSave
    \/ PortalBreak
    \/ Reboot

Spec == Init /\ [][Next]_vars

-----------------------------------------------------------------------------
(* The classifier and the output lines on their own (lines 65-77, 174)      *)

Breakpoints == {AqiGood, AqiModerate, AqiUnhealthyS, AqiUnhealthy, AqiVeryUnhealthy}

\* the concentrations fed to the classifier: every breakpoint and its two
\* neighbours, and a grid from 0 to the largest value a 3.3 V reading gives
Concentrations ==
    {b + e : b \in Breakpoints, e \in {-1, 0, 1}}
    \cup {k * 250000 : k \in 0..120}
    \cup {4000000, 56100000}

\* cat = update_hardware(c), as line 174 calls it, for a concentration c
Classify ==
    /\ pc = "loop"
    /\ \E c \in Concentrations :
        /\ state' = [state EXCEPT !.dust_val = c]
        /\ control_pins' = update_hardware(c)
        /\ out' = [out EXCEPT !.shown = CategoryName(get_aqi_category(c)), !.ran = TRUE]
    /\ UNCHANGED <<config_file, log_file, last_btn_state, btn_start, click_count,
                   last_click, pc, clock, boots, faults, env>>

InitClassify ==
    InitWith(Env(<<>>, 0, 0, FALSE, FALSE, FALSE, DefaultOffset), NoFile, 0)

NextClassify == Classify

SpecClassify == InitClassify /\ [][NextClassify]_vars

\* the output lines that are active
ActiveLines == {i \in 0..(NumPins - 1) : control_pins[i] = 1}

\* the level index a category name stands for
LevelOfName(name) ==
    CASE name = "GOOD" -> 0
      [] name = "MODERATE" -> 1
      [] name = "UNHEALTHY-S" -> 2
      [] name = "UNHEALTHY" -> 3
      [] name = "V. UNHEALTHY" -> 4
      [] name = "HAZARDOUS" -> 5
      [] OTHER -> -1

C7_InRange(c, l) ==
    /\ l \in 0..5
    /\ (l = 0) = (c <= AqiGood)
    /\ (l = 1) = (AqiGood < c /\ c <= AqiModerate)
    /\ (l = 2) = (AqiModerate < c /\ c <= AqiUnhealthyS)
    /\ (l = 3) = (AqiUnhealthyS < c /\ c <= AqiUnhealthy)
    /\ (l = 4) = (AqiUnhealthy < c /\ c <= AqiVeryUnhealthy)
    /\ (l = 5) = (AqiVeryUnhealthy < c)

\* C7: for every concentration c the classifier returns one of the six
\* categories, the one whose range between the ascending breakpoints holds c
\* (c <= 12.0 -> 0, <= 35.4 -> 1, <= 55.4 -> 2, <= 150.4 -> 3, <= 250.4 -> 4,
\* otherwise 5), and the level never decreases when c increases.
C7_Classifier ==
    /\ [](out.ran => C7_InRange(state.dust_val, LevelOfName(out.shown)))
    /\ [][(out.ran /\ state'.dust_val >= state.dust_val)
            => LevelOfName(out'.shown) >= LevelOfName(out.shown)]_vars

C7_Witness ==
    /\ out.ran
    /\ state.dust_val = AqiModerate
    /\ out.shown = "MODERATE"

-----------------------------------------------------------------------------
(* The output lines in the whole program *)

\* C6: after any call of update_hardware(c) exactly one of the six output
\* lines is active, the one whose index is the level of c, and the other five
\* are inactive; during the calibration routine all six are inactive.
C6_OneLinePerLevel ==
    /\ pc = "calibrating" => ActiveLines = {}
    /\ (pc # "calibrating" /\ out.ran) =>
          /\ Cardinality(ActiveLines) = 1
          /\ C7_InRange(state.dust_val, CHOOSE i \in ActiveLines : TRUE)

\* the iteration that a calibration ends in drives line 5 alone, its smoothed
\* reading still being one of before the calibration
C6_Witness ==
    /\ pc = "loop"
    /\ out.call = "calibrated"
    /\ state.dust_val > AqiVeryUnhealthy
    /\ ActiveLines = {5}

-----------------------------------------------------------------------------
(* The button: release classification and the alternate loops *)

\* the click counter and the tap counts are those of before the step
NoClick ==
    /\ click_count' = click_count
    /\ last_click' = last_click
    /\ out'.n_clicks = out.n_clicks
    /\ out'.n_short = out.n_short
    /\ out'.n_double = out.n_double

\* C3, as stated: a release after at least 10000 ms opens the portal, one
\* after at least 5000 ms and less than 10000 ms calibrates, one after more
\* than 20 ms and less than 5000 ms registers one click, one after 20 ms or
\* less is ignored.
C3_AsStated ==
    [][(pc = "loop" /\ out'.release) =>
          /\ out'.dur >= PortalHoldMs => pc' = "portal"
          /\ (out'.dur >= CalHoldMs /\ out'.dur < PortalHoldMs) => pc' = "calibrating"
          /\ (out'.dur > NoiseMs /\ out'.dur < CalHoldMs) =>
                (pc' = "loop" /\ click_count' = click_count + 1)
          /\ out'.dur <= NoiseMs => (pc' = "loop" /\ NoClick)]_vars

\* C3, amended: the thresholds are exclusive.  A release after more than
\* 10000 ms opens the portal, one after more than 5000 ms and at most 10000 ms
\* calibrates, one after more than 20 ms and at most 5000 ms registers one
\* click at the time of the release, one after 20 ms or less is ignored.
C3_Thresholds ==
    [][(pc = "loop" /\ out'.release) =>
          /\ out'.dur = ticks_diff(out'.now, btn_start)
          /\ out'.dur > PortalHoldMs => (pc' = "portal" /\ NoClick)
          /\ (out'.dur > CalHoldMs /\ out'.dur <= PortalHoldMs) =>
                (pc' = "calibrating" /\ NoClick)
          /\ (out'.dur > NoiseMs /\ out'.dur <= CalHoldMs) =>
                /\ pc' = "loop"
                /\ click_count' = click_count + 1
                /\ last_click' = out'.now
          /\ out'.dur <= NoiseMs => (pc' = "loop" /\ NoClick)]_vars

\* a release after exactly 10000 ms has started the calibration
C3_Witness == out.release /\ out.dur = PortalHoldMs /\ pc = "calibrating"

\* C4: a release that starts the calibration or opens the portal registers no
\* click, and emits no tap: the taps emitted never use more clicks than the
\* releases of click length have registered.
C4_HoldsAreTerminal ==
    /\ [][(pc = "loop" /\ pc' \in {"calibrating", "portal"}) =>
             (out'.release /\ out'.dur > CalHoldMs /\ out'.tap = "none" /\ NoClick)]_vars
    /\ [](out.n_short + 2 * out.n_double + click_count <= out.n_clicks)

\* a hold is released after two clicks and their double tap: no click is added
C4_Witness ==
    /\ pc = "calibrating" /\ out.release
    /\ out.n_clicks = 2 /\ out.n_double = 1 /\ click_count = 0

\* C5: the program is in the main loop, in the calibration routine or in the
\* portal (or resetting out of it); the calibration is entered only from the
\* main loop by a release of calibration length, the portal only from the main
\* loop by a release of portal length; entering either and serving the portal
\* does nothing of the main loop; the portal is left only by a reset, and the
\* main loop is then reached only by a boot.
MainLoopUntouched ==
    /\ NoClick
    /\ state'.mode = state.mode
    /\ state'.auto_cycle = state.auto_cycle
    /\ state'.last_mode_change = state.last_mode_change
    /\ state'.dust_val = state.dust_val
    /\ state'.dust_history = state.dust_history
    /\ state'.last_ntp_update = state.last_ntp_update
    /\ state'.last_weather_update = state.last_weather_update
    /\ state'.last_serial = state.last_serial
    /\ state'.weather_temp = state.weather_temp
    /\ state'.weather_desc = state.weather_desc
    /\ out'.ntp_at = out.ntp_at
    /\ out'.wx_at = out.wx_at
    /\ out'.tel_at = out.tel_at

C5_ExclusiveLoops ==
    /\ [](pc \in {"loop", "calibrating", "portal", "reset"})
    /\ [][(pc # "calibrating" /\ pc' = "calibrating") =>
             /\ pc = "loop" /\ out'.release
             /\ out'.dur > CalHoldMs /\ out'.dur <= PortalHoldMs
             /\ MainLoopUntouched]_vars
    /\ [][(pc # "portal" /\ pc' = "portal") =>
             /\ pc = "loop" /\ out'.release
             /\ out'.dur > PortalHoldMs
             /\ MainLoopUntouched]_vars
    /\ [][pc = "portal" => (pc' \in {"portal", "reset"} /\ MainLoopUntouched)]_vars
    /\ [][pc = "reset" => (pc' = "loop" /\ boots' = boots + 1)]_vars
    /\ [][pc = "calibrating" => pc' = "loop"]_vars

\* the portal saved a configuration, the device rebooted, the main loop runs
C5_Witness == boots = 1 /\ pc = "loop" /\ out.ran /\ state.config.ssid = "home"

-----------------------------------------------------------------------------
(* The calibration routine *)

\* the arithmetic mean of a run's 500 samples, of which the first k read d
\* microvolts above the signal
MeanOfRun(d, k) == env.signal + (k * d) \div NSamples

\* C8: one run of the calibration routine sets the offset in use and the
\* offset of the config to the arithmetic mean of its 500 samples (to the
\* signal itself when the signal is constant); unless a file write fails in that
\* run, the config file then holds the config and the log has grown by exactly
\* one entry, that of the mean; no step ever removes or changes an entry of the
\* log.
C8_CalibrationMean ==
    /\ [][pc = "calibrating" =>
             /\ state'.dust_offset = MeanOfRun(out'.cal_d, out'.cal_k)
             /\ state'.config.offset = state'.dust_offset
             /\ out'.cal_d = 0 => state'.dust_offset = env.signal
             /\ Len(log_file') <= Len(log_file) + 1
             /\ faults' = faults =>
                   /\ config_file' = JsonFile(state'.config)
                   /\ log_file' = Append(log_file, Fmt4(state'.dust_offset))]_vars
    /\ [][/\ Len(log_file') >= Len(log_file)
          /\ SubSeq(log_file', 1, Len(log_file)) = log_file]_vars

\* a calibration over samples that are not all equal has ended: the offset is
\* their mean, the config file holds it and the log has its one entry
C8_Witness ==
    /\ out.call = "calibrated"
    /\ out.cal_d > 0 /\ out.cal_k > 1
    /\ state.dust_offset = MeanOfRun(out.cal_d, out.cal_k)
    /\ state.dust_offset # env.signal
    /\ config_file = JsonFile(state.config)
    /\ config_file.data.offset = state.dust_offset
    /\ log_file = <<Fmt4(state.dust_offset)>>

-----------------------------------------------------------------------------
(* Clicks: the main loop alone, under button scripts of one or two clicks    *)

\* the times, after the polls of the boot, at which a script's first press
\* begins: every alignment, in steps of 10 ms, with polls 50 ms apart
Alignments == {200 + 10 * i : i \in 0..4}

\* the time between the release of a click and the press of the next
Gaps == {10, 30, 50, 100, 150, 200, 210, 250, 260}

\* the time a single click is held
Holds == {30, 50, 100, 1000, 4900}

ClickScripts ==
    {Press(p, 100) \o Press(p + 100 + g, 100) : p \in Alignments, g \in Gaps}
    \cup {Press(p, d) : p \in Alignments, d \in Holds}
    \cup {Press(p, 100) \o Press(p + 200, 100) \o Press(p + 400, 100) : p \in Alignments}

InitClicks ==
    \E sc \in ClickScripts, j \in {0, JitterMs}, cf \in {NoFile, CorruptFile} :
        InitWith(Env(sc, sc[Len(sc)] + 1000, j, FALSE, FALSE, FALSE, DefaultOffset), cf,
                 MaxFaults)

NextClicks == Tick

SpecClicks == InitClicks /\ [][NextClicks]_vars

\* the run's script is over and so is the time the run is followed for
Done == pc = "loop" /\ clock > env.horizon

\* C1, as stated: when two clicks of about 100 ms are registered, with at
\* most 250 ms between the release of the first and the press of the second,
\* and the polls are 50 ms apart, the loop performs one DoubleTap and no
\* ShortTap.
C1_AsStated ==
    (/\ Len(env.edges) = 4
     /\ env.edges[3] - env.edges[2] <= ClickWindowMs
     /\ env.jitter = 0
     /\ out.n_clicks = 2)
    => /\ out.n_short = 0
       /\ Done => out.n_double = 1

\* C2: a click that no other click follows yields exactly one ShortTap and no
\* DoubleTap: at the end of a run with one registered click the view has
\* advanced once and no click is pending; a ShortTap advances the view by one,
\* uses the one pending click and leaves none; after an iteration no pending
\* click is older than 250 ms.
C2_SingleClick ==
    /\ []((Done /\ Len(env.edges) = 2 /\ out.n_clicks = 1) =>
             /\ out.n_short = 1 /\ out.n_double = 0
             /\ click_count = 0
             /\ state.mode = 1)
    /\ [][out'.n_short = out.n_short + 1 =>
             /\ state'.mode = (state.mode + 1) % NumViews
             /\ click_count + out'.clicked = 1
             /\ click_count' = 0]_vars
    /\ []((out.ran /\ click_count > 0) =>
             ticks_diff(out.now, last_click) <= ClickWindowMs)

\* a run with one click of 100 ms has ended: one ShortTap, view 1, none pending
C2_Witness ==
    /\ Done
    /\ Len(env.edges) = 2 /\ env.edges[2] - env.edges[1] = 100
    /\ out.n_clicks = 1 /\ out.n_short = 1 /\ out.n_double = 0
    /\ state.mode = 1 /\ click_count = 0

-----------------------------------------------------------------------------
(* Auto-cycle: the main loop alone, followed for half a minute               *)

\* n clicks of 100 ms, 500 ms apart (n ShortTaps), then a double click
TapsThenDouble(n) ==
    [i \in 1..(2 * n + 4) |->
        IF i <= 2 * n
        THEN 200 + 500 * ((i - 1) \div 2) + 100 * ((i - 1) % 2)
        ELSE 200 + 500 * n + 200 * ((i - 2 * n - 1) \div 2) + 100 * ((i - 1) % 2)]

\* the time a run of the auto-cycle is followed for: three changes
AutoHorizon == 3 * AutoCycleMs + 2000

InitAuto ==
    \/ \E j \in {0, JitterMs} :
          InitWith(Env(<<>>, AutoHorizon, j, FALSE, FALSE, FALSE, DefaultOffset),
                   JsonFile([DefaultConfig EXCEPT !.auto = TRUE]), MaxFaults)
    \/ \E n \in {3, 4}, cf \in {NoFile, JsonFile([DefaultConfig EXCEPT !.auto = TRUE])} :
          InitWith(Env(TapsThenDouble(n), AutoHorizon, 0, FALSE, FALSE, FALSE, DefaultOffset),
                   cf, MaxFaults)

NextAuto == Tick

SpecAuto == InitAuto /\ [][NextAuto]_vars

\* the view that follows view m in the auto-cycle
NextAutoView(m) == IF m < NumAutoViews THEN (m + 1) % NumAutoViews ELSE 0

\* C9: with auto-cycle on, the view changes, other than by a ShortTap, exactly
\* when an iteration finds more than 10 seconds passed since the last view
\* change, so once per interval of 10 seconds plus at most the time to the next
\* poll; the change goes to the next of the views 0, 1, 2, from 2 to 0, and to 0
\* from a view outside them, and restarts the interval.
C9_AutoCycle ==
    /\ [][out'.auto_adv =>
             /\ state'.auto_cycle
             /\ ticks_diff(out'.now, state.last_mode_change) > AutoCycleMs
             /\ state'.mode = NextAutoView(state.mode)
             /\ state'.mode \in 0..(NumAutoViews - 1)
             /\ state'.last_mode_change = out'.now]_vars
    /\ [][(pc = "loop" /\ pc' = "loop" /\ out'.tap # "short") =>
             /\ state'.mode # state.mode <=> out'.auto_adv
             /\ state'.last_mode_change # state.last_mode_change <=> out'.auto_adv]_vars
    /\ []((pc = "loop" /\ out.ran /\ state.auto_cycle) =>
             /\ ticks_diff(out.now, state.last_mode_change) >= 0
             /\ ticks_diff(out.now, state.last_mode_change) <= AutoCycleMs)

\* the third change of a run without taps: from view 2 back to view 0
C9_Witness ==
    /\ env.edges = <<>>
    /\ out.auto_adv
    /\ clock > 3 * AutoCycleMs
    /\ state.mode = 0

-----------------------------------------------------------------------------
(* Background tasks: the main loop alone, connected, followed for up to a    *)
(* day.  Where a server is down every iteration blocks in the request that   *)
(* fails, so an iteration takes a second (time sync) or a minute (weather).  *)

TaskEnvironments ==
    {Env(<<>>, 3000, 0, TRUE, TRUE, TRUE, DefaultOffset),
     Env(<<>>, 3000, 0, FALSE, TRUE, TRUE, DefaultOffset),
     Env(<<>>, WeatherIntervalMs + 3 * NtpTimeoutMs, 0, TRUE, FALSE, TRUE, DefaultOffset),
     Env(<<>>, NtpIntervalMs + 3 * HttpBlockMs, 0, TRUE, TRUE, FALSE, DefaultOffset)}

InitTasks ==
    \E e \in TaskEnvironments :
        InitWith(e, NoFile, IF e.ntp_up /\ e.wx_up THEN MaxFaults ELSE 0)

NextTasks == Tick

SpecTasks == InitTasks /\ [][NextTasks]_vars

\* C10: the time sync, the weather refresh and the telemetry are attempted
\* only when at least 24 h, 15 min, 1 s have passed since their last successful
\* run, the first two only when the network is connected; two successful runs
\* of a task are at least its interval apart; a successful run stamps the task
\* with the time of the run and a failed one leaves its timestamp as it was.
C10_TaskIntervals ==
    /\ [][out'.ntp # "skip" =>
             /\ out'.connected
             /\ ticks_diff(out'.now, state.last_ntp_update) >= NtpIntervalMs
             /\ out.ntp_at >= 0 => clock - out.ntp_at >= NtpIntervalMs
             /\ state'.last_ntp_update =
                   IF out'.ntp = "ok" THEN out'.now ELSE state.last_ntp_update]_vars
    /\ [][out'.wx # "skip" =>
             /\ out'.connected
             /\ ticks_diff(out'.now, state.last_weather_update) >= WeatherIntervalMs
             /\ out.wx_at >= 0 => clock - out.wx_at >= WeatherIntervalMs
             /\ state'.last_weather_update =
                   IF out'.wx = "ok" THEN out'.now ELSE state.last_weather_update]_vars
    /\ [][out'.telemetry # None =>
             /\ ticks_diff(out'.now, state.last_serial) >= TelemetryIntervalMs
             /\ out.tel_at >= 0 => clock - out.tel_at >= TelemetryIntervalMs
             /\ state'.last_serial = out'.now]_vars
    /\ [](/\ out.ntp_prev >= 0 => out.ntp_at - out.ntp_prev >= NtpIntervalMs
          /\ out.wx_prev >= 0 => out.wx_at - out.wx_prev >= WeatherIntervalMs
          /\ out.tel_prev >= 0 => out.tel_at - out.tel_prev >= TelemetryIntervalMs)

\* the second time sync of a run, a day after the first, the weather refresh
\* having failed in every iteration between them
C10_Witness ==
    /\ out.ntp = "ok" /\ out.ntp_prev >= 0
    /\ out.ntp_at - out.ntp_prev > NtpIntervalMs
    /\ out.wx = "fail"
    /\ state.last_weather_update = -WeatherIntervalMs
    /\ out.tel_prev >= 0

-----------------------------------------------------------------------------
(* Long uptime: the tick counter about to wrap                               *)

\* the time of a poll some three seconds before ticks_ms() wraps, in a run
\* that has polled every 50 ms since boot
LateStart == BootMs + SleepMs * ((TICKS_PERIOD - 3000 - BootMs) \div SleepMs)

\* the first telemetry of such a run: the first poll at or after 1000 ms
FirstTelemetry ==
    BootMs + SleepMs * ((TelemetryIntervalMs - BootMs + SleepMs - 1) \div SleepMs)

\* the last telemetry before time t of such a run: one every 1000 ms
LastTelemetry(t) ==
    FirstTelemetry
    + TelemetryIntervalMs * ((t - SleepMs - FirstTelemetry) \div TelemetryIntervalMs)

\* The state of the main loop at the poll of time t of a run in environment e
\* that has been idle and without network since boot: as at boot, but for the
\* time and the stamp of the last telemetry.
InitLateWith(e, cf, f, t) ==
    /\ env = e
    /\ LET b == BootState(cf, <<>>, TRUE)
       IN  /\ state = [b.state EXCEPT !.last_serial = ticks_ms(LastTelemetry(t))]
           /\ config_file = b.cf
           /\ out = [BootOut(b.state) EXCEPT !.ran = TRUE, !.now = ticks_ms(t - SleepMs),
                                             !.tel_at = LastTelemetry(t)]
    /\ log_file = <<>>
    /\ control_pins = update_hardware(0)
    /\ last_btn_state = 0
    /\ btn_start = 0
    /\ click_count = 0
    /\ last_click = 0
    /\ pc = "loop"
    /\ clock = t
    /\ boots = 0
    /\ faults = f

-----------------------------------------------------------------------------
(* Without network: the main loop and the calibration, never connected       *)

OfflineScripts == {<<>>, Press(200, 100) \o Press(400, 100), Press(200, 5050)}

InitOffline ==
    \/ \E sc \in OfflineScripts, j \in {0, JitterMs}, cf \in {NoFile, CorruptFile} :
          InitWith(Env(sc, (IF sc = <<>> THEN 0 ELSE sc[Len(sc)]) + 4000 + CalMs, j,
                       FALSE, TRUE, TRUE, DefaultOffset), cf, MaxFaults)
    \/ InitLateWith(Env(<<>>, LateStart + 6000, 0, FALSE, TRUE, TRUE, DefaultOffset),
                    NoFile, 0, LateStart)

NextOffline == Tick \/ CalibrateSensor

\* Tick and CalibrateSensor can take a step (each step of theirs changes vars)
TickEnabled == pc = "loop" /\ clock <= env.horizon
CalibrateSensorEnabled == pc = "calibrating"

\* The loop never stops and the calibration routine returns: weak fairness of
\* Tick and of CalibrateSensor, WF_vars(A) written out as
\* []<>~ENABLED <<A>>_vars \/ []<><<A>>_vars.
SpecOffline ==
    /\ InitOffline /\ [][NextOffline]_vars
    /\ ([]<>(~TickEnabled) \/ []<><<Tick>>_vars)
    /\ ([]<>(~CalibrateSensorEnabled) \/ []<><<CalibrateSensor>>_vars)

\* the background tasks' record of a run that was never connected
NeverSynced ==
    /\ ~out.connected /\ out.ntp = "skip" /\ out.wx = "skip"
    /\ state.last_ntp_update = -NtpIntervalMs
    /\ state.last_weather_update = -WeatherIntervalMs
    /\ state.weather_temp = NoTemp
    /\ state.weather_desc = "Syncing..."

\* after an iteration of the main loop no telemetry record is overdue
TelemetryInTime ==
    (pc = "loop" /\ out.ran) =>
        /\ ticks_diff(out.now, state.last_serial) >= 0
        /\ ticks_diff(out.now, state.last_serial) < TelemetryIntervalMs

\* C11: in a run that is never connected the timestamps of the time sync and
\* of the weather refresh and the cached weather stay as they were at boot,
\* while an iteration of the main loop emits a telemetry record exactly when at
\* least 1000 ms have passed since the last one, so that after no iteration a
\* record is overdue; the run goes on to its end and a record was emitted
\* within the last second of it.
C11_OfflineTelemetry ==
    /\ NeverSynced /\ TelemetryInTime
    /\ [][NeverSynced' /\ TelemetryInTime']_vars
    /\ [][(pc' = "loop") =>
             /\ out'.telemetry # None <=>
                   ticks_diff(out'.now, state.last_serial) >= TelemetryIntervalMs
             /\ out'.telemetry # None =>
                   (state'.last_serial = out'.now /\ out'.telemetry[1].rssi = "DISC")]_vars
    /\ <>(/\ Done /\ out.tel_at >= 0
          /\ clock - out.tel_at <= TelemetryIntervalMs + SleepMs + env.jitter)

\* a run without network has passed the wrap of the tick counter and ended,
\* its last record emitted after the wrap
C11_Witness ==
    /\ Done /\ ~env.net
    /\ clock > TICKS_PERIOD
    /\ out.tel_at > TICKS_PERIOD
    /\ state.last_serial = ticks_ms(out.tel_at)
    /\ state.last_weather_update = -WeatherIntervalMs

-----------------------------------------------------------------------------
(* The weather refresh *)

\* C12: a weather refresh that fails, by a network error or by a response
\* that is malformed or lacks the temperature or the weather code, leaves the
\* cached temperature, the cached description and the timestamp of the refresh
\* as they were, and the refresh stays due.
C12_FailedRefresh ==
    [][out'.wx \in {"fail", "partial"} =>
          /\ state'.weather_temp = state.weather_temp
          /\ state'.weather_desc = state.weather_desc
          /\ state'.last_weather_update = state.last_weather_update
          /\ WeatherDue(state', out'.now)]_vars

-----------------------------------------------------------------------------
(* The portal's save request *)

\* the save request of the step carries all four of s, p, la, lo, and its
\* offset parameter, if it has one, is the text of a number
WellFormedSave ==
    /\ pc = "portal" /\ out'.request # None
    /\ out'.request[1].s # None /\ out'.request[1].p # None
    /\ out'.request[1].la # None /\ out'.request[1].lo # None
    /\ out'.request[1].os # None => FloatOk(out'.request[1].os[1])

\* C13: a portal save request writes its parameters into the config and,
\* unless the write fails, into the config file; it appends an entry to the
\* calibration log if and only if it carries an offset parameter, so a save
\* request without one leaves the log as it was.
C13_SaveLogsOffsetOnly ==
    [][WellFormedSave =>
          /\ state'.config.ssid = out'.request[1].s[1]
          /\ state'.config.pass = out'.request[1].p[1]
          /\ state'.config.lat = out'.request[1].la[1]
          /\ state'.config.lon = out'.request[1].lo[1]
          /\ faults' = faults => config_file' = JsonFile(state'.config)
          /\ IF out'.request[1].os # None
             THEN log_file' = Append(log_file, Fmt4(out'.request[1].os[1].val))
             ELSE log_file' = log_file]_vars

-----------------------------------------------------------------------------
(* The rolling window: the main loop alone under a rising signal            *)

\* the window is filled (60 iterations) and turned over once more
WindowHorizon == (2 * HistoryLen + 10) * (SleepMs + JitterMs)

InitWindow ==
    \E j \in {0, JitterMs}, cf \in StoredConfigs :
        InitWith(Rising(Env(<<>>, WindowHorizon, j, FALSE, FALSE, FALSE,
                            DefaultOffset - 3 * VoltStep), 1), cf, 0)

NextWindow == Tick

SpecWindow == InitWindow /\ [][NextWindow]_vars

\* the number of iterations of the run so far
Iterations == (clock - BootMs) \div (SleepMs + env.jitter)

\* the reading of the run's m-th iteration, m >= 1
ReadingOf(m) ==
    LET uv == Signal(BootMs + (m - 1) * (SleepMs + env.jitter)) - state.dust_offset
    IN  IF uv > 0 THEN (uv * Sensitivity) \div ConcScale ELSE 0

\* C14: the rolling window has 60 entries in every state; an iteration drops
\* its first entry, moves the others one place down and puts the new reading
\* last; so after n iterations the window holds, oldest first, the readings of
\* iterations n-59 to n (zeros of the start before them), and the reading of
\* iteration k is gone after iteration k+60 and not before.
C14_Window ==
    /\ [](Len(state.dust_history) = HistoryLen)
    /\ [][pc' = "loop" =>
             /\ \A i \in 1..(HistoryLen - 1) :
                   state'.dust_history[i] = state.dust_history[i + 1]
             /\ state'.dust_history[HistoryLen] = ReadingOf(Iterations + 1)]_vars
    /\ [](\A i \in 1..HistoryLen :
             state.dust_history[i] =
                IF Iterations - HistoryLen + i >= 1
                THEN ReadingOf(Iterations - HistoryLen + i) ELSE 0)

\* the window has turned over: it holds the readings of iterations 11 to 70,
\* all different
C14_Witness ==
    /\ Iterations = HistoryLen + 10
    /\ state.dust_history[1] = ReadingOf(11)
    /\ state.dust_history[HistoryLen] = ReadingOf(HistoryLen + 10)
    /\ \A i \in 1..(HistoryLen - 1) : state.dust_history[i] < state.dust_history[i + 1]

-----------------------------------------------------------------------------
(* Click aggregation *)

\* C15: a ShortTap or DoubleTap is performed only in an iteration that finds
\* more than 250 ms passed since the latest registered click and registers no
\* click itself; it uses up all pending clicks, one for a ShortTap and two or
\* more for a DoubleTap, and an iteration without a tap keeps them: so every
\* registered click is pending or counted in exactly one tap, and a click that
\* a ShortTap has used is not counted in a later DoubleTap.
C15_ClicksUsedOnce ==
    /\ [][out'.tap # "none" =>
             /\ out'.clicked = 0
             /\ ticks_diff(out'.now, last_click) > ClickWindowMs
             /\ click_count' = 0
             /\ IF out'.tap = "short" THEN click_count = 1 ELSE click_count >= 2]_vars
    /\ [][(pc = "loop" /\ out'.tap = "none") =>
             click_count' = click_count + out'.clicked]_vars
    /\ [](/\ out.n_short + 2 * out.n_double + click_count <= out.n_clicks
          /\ out.n_double = 0 => out.n_short + click_count = out.n_clicks)

\* two clicks too far apart for a DoubleTap: the second ShortTap has fired, each
\* click counted in its own tap
C15_Witness ==
    /\ out.tap = "short"
    /\ out.n_clicks = 2 /\ out.n_short = 2 /\ out.n_double = 0
    /\ click_count = 0

-----------------------------------------------------------------------------
(* Taps: the main loop alone under scripts of ShortTaps and DoubleTaps       *)

\* a double click at time p: two clicks of 100 ms, 100 ms apart
DoubleClick(p) == Press(p, 100) \o Press(p + 200, 100)

\* three double clicks; a click, then two double clicks; clicks through all
\* the views; and a double click after more than ten idle seconds
TapScripts ==
    {DoubleClick(200) \o DoubleClick(1000) \o DoubleClick(1800),
     Press(200, 100) \o DoubleClick(1000) \o DoubleClick(1800),
     DoubleClick(200) \o Press(1000, 100) \o DoubleClick(1800),
     [i \in 1..12 |-> 200 + 500 * ((i - 1) \div 2) + 100 * ((i - 1) % 2)],
     DoubleClick(AutoCycleMs + 500)}

InitTaps ==
    \E sc \in TapScripts, j \in {0, JitterMs}, cf \in StoredConfigs :
        InitWith(Env(sc, sc[Len(sc)] + 1500, j, FALSE, FALSE, FALSE, DefaultOffset),
                 cf, MaxFaults)

NextTaps == Tick

SpecTaps == InitTaps /\ [][NextTaps]_vars

\* the config but for its auto flag
SansAuto(c) == [c EXCEPT !.auto = FALSE]

\* C16: a DoubleTap flips the auto-cycle flag once, stores the new flag in the
\* config and, unless the write fails, in the config file, changes nothing else
\* of the config and nothing of the log, and sets the confirmation message for
\* one second; it leaves the view and the time of the last view change alone
\* (when the flag goes on with the last view change more than 10 s old, the
\* auto-cycle of the same iteration then changes the view); iterations without
\* a tap leave the flag alone, so two DoubleTaps in a row restore it: as long
\* as a run has no ShortTap, the flag is the one of boot after an even number
\* of DoubleTaps and its opposite after an odd number.
C16_DoubleTapToggles ==
    /\ [][out'.tap = "double" =>
             /\ state'.auto_cycle = ~state.auto_cycle
             /\ state'.config.auto = state'.auto_cycle
             /\ SansAuto(state'.config) = SansAuto(state.config)
             /\ faults' = faults => config_file' = JsonFile(state'.config)
             /\ log_file' = log_file
             /\ state'.msg_text = IF state'.auto_cycle THEN "AUTO ON" ELSE "AUTO OFF"
             /\ state'.msg_timer = out'.now + AutoMsgMs
             /\ IF out'.auto_adv
                THEN state'.auto_cycle /\ state'.last_mode_change = out'.now
                ELSE /\ state'.mode = state.mode
                     /\ state'.last_mode_change = state.last_mode_change]_vars
    /\ [][(pc = "loop" /\ out'.tap = "none") =>
             state'.auto_cycle = state.auto_cycle]_vars
    /\ [](out.n_short = 0 =>
             state.auto_cycle = (out.auto_at_boot = (out.n_double % 2 = 0)))

\* the second of two DoubleTaps in a row has turned the flag off again, in
\* memory, in the config and in the file
C16_Witness ==
    /\ out.tap = "double" /\ out.n_double = 2 /\ out.n_short = 0
    /\ ~state.auto_cycle /\ ~state.config.auto
    /\ config_file = JsonFile(state.config)
    /\ state.msg_text = "AUTO OFF"
    /\ state.mode = 0


\* C17: a ShortTap moves the view to (view + 1) modulo 5, so that the view is
\* always one of 0..4, and turns the auto-cycle flag off in memory only: the
\* config, its auto flag included, the config file and the log stay as they
\* were.
C17_ShortTapAdvances ==
    /\ [][out'.tap = "short" =>
             /\ state'.mode = (state.mode + 1) % NumViews
             /\ state'.last_mode_change = out'.now
             /\ ~state'.auto_cycle
             /\ ~out'.auto_adv
             /\ state'.config = state.config
             /\ config_file' = config_file
             /\ log_file' = log_file]_vars
    /\ [](state.mode \in 0..(NumViews - 1))

\* the fifth ShortTap of a run has wrapped the view from 4 to 0; the auto-cycle
\* is off in memory while the config and the file still have it on
C17_Witness ==
    /\ out.tap = "short" /\ out.n_short = NumViews
    /\ state.mode = 0
    /\ ~state.auto_cycle
    /\ state.config.auto
    /\ config_file = JsonFile(state.config)


-----------------------------------------------------------------------------
(* The calibration message: a calibration early in the counter's period and  *)
(* one that completes less than 2000 ms before ticks_ms() wraps              *)

\* a poll some eleven seconds before ticks_ms() wraps: a hold of 5050 ms that
\* begins 100 ms later is released 5150 ms later, and the calibration it
\* starts completes some 850 ms before the wrap
LateHoldStart == LateStart - PortalHoldMs + 2000

MessageHorizon == 2 * CalHoldMs + CalMs + 2 * CalMsgMs

InitMessage ==
    \/ \E j \in {0, JitterMs} :
          InitWith(Env(Press(200, 5050), MessageHorizon, j, FALSE, FALSE, FALSE,
                       DefaultOffset), NoFile, 0)
    \/ InitLateWith(Env(Press(LateHoldStart + 100, 5050), LateHoldStart + MessageHorizon, 0,
                        FALSE, FALSE, FALSE, DefaultOffset), NoFile, 0, LateHoldStart)

NextMessage == Tick \/ CalibrateSensor

SpecMessage == InitMessage /\ [][NextMessage]_vars

\* the counter value at which the calibration that set the message completed
\* (line 62: msg_timer is that value plus 2000)
CalibratedAt == ticks_ms(state.msg_timer - CalMsgMs)

\* C18: once the calibration has completed at counter time T, an iteration
\* shows the message only if its time is at most 2000 ms after T, and an
\* iteration later than that without the button held shows the view, whatever
\* the value of the counter at T.
C18_MessageWindow ==
    (pc = "loop" /\ out.ran /\ state.msg_text = "CAL & LOGGED!") =>
        /\ out.shown = "msg" => ticks_diff(out.now, CalibratedAt) <= CalMsgMs
        /\ (ticks_diff(out.now, CalibratedAt) > CalMsgMs /\ out.curr_btn = 0)
               => out.shown = VIEWS[state.mode + 1]


-----------------------------------------------------------------------------
\* C19: whenever a step changes a field of the in-memory config, the config
\* file holds the full in-memory config after the step, provided the file
\* write of that step did not fail; so after an update the config in memory and
\* the persisted config are the same.
C19_PersistedOnMutation ==
    [][(state'.config # state.config /\ faults' = faults)
          => config_file' = JsonFile(state'.config)]_vars


-----------------------------------------------------------------------------
\* C20: in every state of the main loop the offset the sampler uses,
\* state.dust_offset, equals the offset of the config: after the load at
\* start-up from a present, absent or corrupt file, after every calibration
\* and after every ShortTap and DoubleTap.
C20_OffsetInSync ==
    pc = "loop" => state.dust_offset = state.config.offset

\* a run that calibrated to a new offset, then took a ShortTap and a DoubleTap
C20_Witness ==
    /\ pc = "loop" /\ out.tap = "double" /\ out.n_short = 1
    /\ Len(log_file) = 1
    /\ state.dust_offset \notin {DefaultOffset, DefaultOffset - VoltStep}
    /\ state.config.offset = state.dust_offset

====
